---- MODULE Spec2Model ----
(***************************************************************************)
(* Melbourne SA2 pipeline: the Metadata Joiner                             *)
(* (create_melbourne_metadata.py), the Map Parameter Calculator            *)
(* (calculate_melbourne_center.py) and the Boundary Extractor              *)
(* (process_melbourne_data.py), as state machines over one file system.    *)
(*                                                                         *)
(* Units: coordinates are tenths of a degree, the centre is in twentieths  *)
(* of a degree (so that the midpoint of two tenths is an integer), and a   *)
(* density is in hundredths of people/km2 (the value round(d, 2) keeps).   *)
(***************************************************************************)
EXTENDS Integers, Sequences, FiniteSets, TLC

\* ------------------------------------------------------------------ bounds
MaxRecs == 2     \* longest population record list
MaxArea == 8     \* largest area_km2 of the density inputs
MaxPop == 7      \* largest population of the density inputs
MaxCoord == 101  \* largest coordinate (tenths of a degree) of the zoom inputs
MaxGrid == 2     \* largest coordinate of the union-box inputs

VARIABLES
    fs,              \* file name -> content
    remote,          \* what the population API answers to the one GET
    shapefile,       \* the Greater Melbourne rows of the shapefile: name -> box
    prog,            \* which script is running ("idle" between runs)
    pc,              \* the running script's position in its main()
    err,             \* the uncaught exception that ended the run, or "none"
    caught,          \* the exception main's except clause caught, or "none"
    written,         \* the files this run has written, in order
    api_data,        \* main's api_data
    bounds_data,     \* main's bounds_data['data'] / the calculator's regions
    common_names, api_only, shapefile_only,   \* analyze_data_coverage's sets
    latest_year,     \* the year column the last create_* call selected, or "none"
    box,             \* <<overall_min_lng, overall_min_lat, overall_max_lng, overall_max_lat>>
    result,          \* <<center_lat, center_lng, zoom>> as returned, or <<>>
    ran              \* the scripts that have completed a run without error

vars == <<fs, remote, shapefile, prog, pc, err, caught, written, api_data,
          bounds_data, common_names, api_only, shapefile_only, latest_year,
          box, result, ran>>

\* ------------------------------------------------------------- file system
LOCAL_JSON == "melbourne_api_data.json"
BOUNDS_INFO == "melbourne_sa2_bounds_info.json"
GEOJSON == "melbourne_sa2_boundaries.json"
ZIP_META == "zipcode_metadata.json"
DENS_MATCHED == "melbourne_density_matched.json"
POP_FULL == "melbourne_population_metadata.json"
DENS_FULL == "melbourne_density_metadata.json"
ZIP_BOUND == "zipcode_bound_info.json"

Files == {LOCAL_JSON, BOUNDS_INFO, GEOJSON, ZIP_META, DENS_MATCHED, POP_FULL,
          DENS_FULL, ZIP_BOUND}

Absent == [kind |-> "absent"]
Corrupt == [kind |-> "corrupt"]
Json(v) == [kind |-> "json", val |-> v]

\* open(name, 'w') followed by json.dump(v, f)
WriteJson(files, name, v) == [files EXCEPT ![name] = Json(v)]

\* a dict: the empty one, and d[k] = v
EmptyDict == [k \in {} |-> 0]
Put(d, k, v) == [x \in DOMAIN d \cup {k} |-> IF x = k THEN v ELSE d[x]]

\* ------------------------------------------------- population record fields
\* The field names of the model, in Python's string order ('2' < 'i').
FieldOrder == <<"area_km2", "sa2_name", "y2020", "y2021", "yield">>
FieldRank(col) == CHOOSE i \in 1..Len(FieldOrder) : FieldOrder[i] = col
\* col.startswith('y')
StartsWithY(col) == col \in {"y2020", "y2021", "yield"}
\* the fields that are year labels (y2001 ... y2021 in the API)
YearLabels == {"y2020", "y2021"}

\* max() of a non-empty collection of field names
MaxField(cols) == CHOOSE c \in cols : \A d \in cols : FieldRank(d) <= FieldRank(c)

\* YearColumns gathered from every record instead of the first
YearColumnsAllRecords(data) ==
    {col \in UNION {DOMAIN data[i] : i \in 1..Len(data)} : StartsWithY(col)}

\* year_columns = [col for col in api_data[0].keys() if col.startswith('y')]
YearColumns(data) == {col \in DOMAIN data[1] : StartsWithY(col)}

\* latest_year = max(year_columns); the exception when it cannot be computed
LatestYearError(data) ==
    IF Len(data) = 0 THEN "IndexError"
    ELSE IF YearColumns(data) = {} THEN "ValueError"
    ELSE "none"
LatestYear(data) == MaxField(YearColumns(data))

\* ------------------------------------------------------------------ density
\* round(n / d, 2) in hundredths, for n >= 0 and d > 0: round-half-even on the
\* quotient.  Within the model's areas a tie (200*n/d an odd integer) needs d
\* divisible by 8, where n/d is a binary fraction and the float is exact, so
\* Python's round() is round-half-even on the exact value.
RoundHundredths(n, d) ==
    LET q == (100 * n) \div d
        r == (100 * n) % d
    IN  IF 2 * r < d THEN q
        ELSE IF 2 * r > d THEN q + 1
        ELSE IF q % 2 = 0 THEN q ELSE q + 1

\* Density truncated to two decimals instead of rounded
DensityTruncated(population, area_km2) ==
    IF area_km2 > 0 THEN (100 * population) \div area_km2 ELSE 0

\* if area_km2 > 0: density = population / area_km2 else: density = 0;
\* round(density, 2)
Density(population, area_km2) ==
    IF area_km2 > 0 THEN RoundHundredths(population, area_km2) ELSE 0

\* --------------------------------------------- create_melbourne_metadata.py
\* The transport failures of requests.get / raise_for_status, and r.json()
\* failing on a body that is not JSON.
TransportErrors == {"ConnectionError", "Timeout", "HTTPError"}
RemoteFailures == TransportErrors \cup {"JSONDecodeError"}

\* if not data or "sa2_name" not in data[0]: raise ValueError(...)
StructureOk(data) == Len(data) > 0 /\ "sa2_name" \in DOMAIN data[1]

\* How writing the cache file can end: written, open() refused (the old file
\* is untouched), or json.dump failing after open() truncated the file.
CacheWrites == {"ok", "open_fails", "dump_fails"}

\* The exception load_api_data() raises, "none" when it returns data.
LoadApiError(rem, w) ==
    IF rem.kind \in RemoteFailures THEN rem.kind
    ELSE IF ~StructureOk(rem.val) THEN "ValueError"
    ELSE IF w # "ok" THEN "OSError"
    ELSE "none"

\* The cache file after load_api_data().
LoadApiCache(files, rem, w) ==
    IF rem.kind \in RemoteFailures \/ ~StructureOk(rem.val) \/ w = "open_fails"
    THEN files
    ELSE IF w = "dump_fails" THEN [files EXCEPT ![LOCAL_JSON] = Corrupt]
    ELSE WriteJson(files, LOCAL_JSON, rem.val)

\* Catches narrowed to the transport failures (except requests.RequestException)
CatchesTransportOnly(e) == e \in TransportErrors

\* except Exception as e: every exception load_api_data raises is caught.
Catches(e) == e # "none"

\* with open(name) as f: json.load(f): the exception, "none" when it loads.
ReadError(files, name) ==
    IF files[name].kind = "absent" THEN "FileNotFoundError"
    ELSE IF files[name].kind = "corrupt" THEN "JSONDecodeError"
    ELSE "none"

\* set(region['sa2_name'] for region in api_data)
ApiNamesError(data) ==
    IF \E i \in 1..Len(data) : "sa2_name" \notin DOMAIN data[i] THEN "KeyError"
    ELSE "none"
ApiNames(data) == {data[i]["sa2_name"] : i \in 1..Len(data)}

\* analyze_data_coverage's three sets
CommonNames(api_sa2_names, shapefile_sa2_names) ==
    api_sa2_names \cap shapefile_sa2_names
\* ApiOnly without the set difference
ApiOnlyAll(api_sa2_names, shapefile_sa2_names) == api_sa2_names
ApiOnly(api_sa2_names, shapefile_sa2_names) ==
    api_sa2_names \ shapefile_sa2_names
ShapefileOnly(api_sa2_names, shapefile_sa2_names) ==
    shapefile_sa2_names \ api_sa2_names

\* IsMatched admitting every record
IsMatchedAlways(sa2_name, common) == TRUE

\* the test that admits a record to the matched outputs
IsMatched(sa2_name, common) == sa2_name \in common

\* create_matched_metadata's loop from record i on; a missing key ends it.
RECURSIVE MatchedLoop(_, _, _, _, _, _)
MatchedLoop(data, i, latest, common, population_metadata, density_metadata) ==
    IF i > Len(data)
    THEN [err |-> "none", pop |-> population_metadata, dens |-> density_metadata]
    ELSE LET region == data[i] IN
         IF "sa2_name" \notin DOMAIN region
         THEN [err |-> "KeyError", pop |-> population_metadata, dens |-> density_metadata]
         ELSE IF ~IsMatched(region["sa2_name"], common)
         THEN MatchedLoop(data, i + 1, latest, common,
                          population_metadata, density_metadata)
         ELSE IF latest \notin DOMAIN region \/ "area_km2" \notin DOMAIN region
         THEN [err |-> "KeyError", pop |-> population_metadata, dens |-> density_metadata]
         ELSE MatchedLoop(data, i + 1, latest, common,
                  Put(population_metadata, region["sa2_name"], region[latest]),
                  Put(density_metadata, region["sa2_name"],
                      Density(region[latest], region["area_km2"])))

\* create_matched_metadata up to its first open(): the two dicts, or the exception
MatchedMetadata(data, common) ==
    IF LatestYearError(data) # "none"
    THEN [err |-> LatestYearError(data), pop |-> EmptyDict, dens |-> EmptyDict]
    ELSE MatchedLoop(data, 1, LatestYear(data), common, EmptyDict, EmptyDict)

\* create_metadata_from_latest_year's loop
RECURSIVE PopulationLoop(_, _, _, _)
PopulationLoop(data, i, latest, metadata) ==
    IF i > Len(data) THEN [err |-> "none", metadata |-> metadata]
    ELSE LET region == data[i] IN
         IF "sa2_name" \notin DOMAIN region \/ latest \notin DOMAIN region
         THEN [err |-> "KeyError", metadata |-> metadata]
         ELSE PopulationLoop(data, i + 1, latest,
                  Put(metadata, region["sa2_name"], region[latest]))

PopulationMetadata(data) ==
    IF LatestYearError(data) # "none"
    THEN [err |-> LatestYearError(data), metadata |-> EmptyDict]
    ELSE PopulationLoop(data, 1, LatestYear(data), EmptyDict)

\* create_density_metadata's loop
RECURSIVE DensityLoop(_, _, _, _)
DensityLoop(data, i, latest, metadata) ==
    IF i > Len(data) THEN [err |-> "none", metadata |-> metadata]
    ELSE LET region == data[i] IN
         IF \/ "sa2_name" \notin DOMAIN region
            \/ latest \notin DOMAIN region
            \/ "area_km2" \notin DOMAIN region
         THEN [err |-> "KeyError", metadata |-> metadata]
         ELSE DensityLoop(data, i + 1, latest,
                  Put(metadata, region["sa2_name"],
                      Density(region[latest], region["area_km2"])))

DensityMetadata(data) ==
    IF LatestYearError(data) # "none"
    THEN [err |-> LatestYearError(data), metadata |-> EmptyDict]
    ELSE DensityLoop(data, 1, LatestYear(data), EmptyDict)

\* An uncaught exception ends the run where it is raised: pc stays at the step.
Fail(e) == /\ err' = e
           /\ pc' = pc

calcVars == <<box, result>>
joinLocals == <<api_data, bounds_data, common_names, api_only, shapefile_only>>
env == <<remote, shapefile>>

\* latest_year = max(year_columns), when it can be computed
SelectLatestYear ==
    latest_year' = IF LatestYearError(api_data) = "none"
                   THEN LatestYear(api_data) ELSE latest_year

\* main, step 1, the try body: api_data = load_api_data()
LoadApiData ==
    /\ prog = "join" /\ pc = "load_api" /\ err = "none"
    /\ \E w \in CacheWrites :
        LET e == LoadApiError(remote, w) IN
        /\ fs' = LoadApiCache(fs, remote, w)
        /\ written' = IF e = "none" THEN Append(written, LOCAL_JSON) ELSE written
        /\ IF e = "none"
           THEN /\ api_data' = remote.val
                /\ pc' = "load_bounds"
                /\ UNCHANGED <<err, caught>>
           ELSE IF Catches(e)
           THEN /\ caught' = e
                /\ pc' = "fallback"
                /\ UNCHANGED <<err, api_data>>
           ELSE /\ Fail(e)
                /\ UNCHANGED <<caught, api_data>>
    /\ UNCHANGED <<env, prog, bounds_data, common_names, api_only, shapefile_only,
                   latest_year, calcVars, ran>>

\* main, step 1, the except body: json.load of LOCAL_JSON
FallbackLoad ==
    /\ prog = "join" /\ pc = "fallback" /\ err = "none"
    /\ IF ReadError(fs, LOCAL_JSON) # "none"
       THEN /\ Fail(ReadError(fs, LOCAL_JSON))
            /\ UNCHANGED api_data
       ELSE /\ api_data' = fs[LOCAL_JSON].val
            /\ pc' = "load_bounds"
            /\ UNCHANGED err
    /\ UNCHANGED <<fs, env, prog, caught, written, bounds_data, common_names,
                   api_only, shapefile_only, latest_year, calcVars, ran>>

\* main, step 2: bounds_data = json.load('melbourne_sa2_bounds_info.json')
LoadBounds ==
    /\ prog = "join" /\ pc = "load_bounds" /\ err = "none"
    /\ IF ReadError(fs, BOUNDS_INFO) # "none"
       THEN /\ Fail(ReadError(fs, BOUNDS_INFO))
            /\ UNCHANGED bounds_data
       ELSE /\ bounds_data' = fs[BOUNDS_INFO].val
            /\ pc' = "analyze"
            /\ UNCHANGED err
    /\ UNCHANGED <<fs, env, prog, caught, written, api_data, common_names,
                   api_only, shapefile_only, latest_year, calcVars, ran>>

\* main, step 3: common_names = analyze_data_coverage(api_data, bounds_data)
AnalyzeDataCoverage ==
    /\ prog = "join" /\ pc = "analyze" /\ err = "none"
    /\ IF ApiNamesError(api_data) # "none"
       THEN /\ Fail(ApiNamesError(api_data))
            /\ UNCHANGED <<common_names, api_only, shapefile_only>>
       ELSE /\ common_names' = CommonNames(ApiNames(api_data), DOMAIN bounds_data)
            /\ api_only' = ApiOnly(ApiNames(api_data), DOMAIN bounds_data)
            /\ shapefile_only' = ShapefileOnly(ApiNames(api_data), DOMAIN bounds_data)
            /\ pc' = "matched"
            /\ UNCHANGED err
    /\ UNCHANGED <<fs, env, prog, caught, written, api_data, bounds_data,
                   latest_year, calcVars, ran>>

\* CreateMatchedMetadata wrapped in try/except: a failure is skipped and main
\* goes on to the next output
CreateMatchedMetadataIndependent ==
    /\ prog = "join" /\ pc = "matched" /\ err = "none"
    /\ SelectLatestYear
    /\ LET m == MatchedMetadata(api_data, common_names) IN
       IF m.err # "none"
       THEN /\ pc' = "full_population"
            /\ UNCHANGED <<fs, written, err>>
       ELSE /\ fs' = WriteJson(WriteJson(fs, ZIP_META, m.pop), DENS_MATCHED, m.dens)
            /\ written' = written \o <<ZIP_META, DENS_MATCHED>>
            /\ pc' = "full_population"
            /\ UNCHANGED err
    /\ UNCHANGED <<env, prog, caught, joinLocals, calcVars, ran>>

\* main, step 4: create_matched_metadata(api_data, common_names)
CreateMatchedMetadata ==
    /\ prog = "join" /\ pc = "matched" /\ err = "none"
    /\ SelectLatestYear
    /\ LET m == MatchedMetadata(api_data, common_names) IN
       IF m.err # "none"
       THEN /\ Fail(m.err)
            /\ UNCHANGED <<fs, written>>
       ELSE /\ fs' = WriteJson(WriteJson(fs, ZIP_META, m.pop), DENS_MATCHED, m.dens)
            /\ written' = written \o <<ZIP_META, DENS_MATCHED>>
            /\ pc' = "full_population"
            /\ UNCHANGED err
    /\ UNCHANGED <<env, prog, caught, joinLocals, calcVars, ran>>

\* main, step 5a: create_metadata_from_latest_year(api_data)
CreateMetadataFromLatestYear ==
    /\ prog = "join" /\ pc = "full_population" /\ err = "none"
    /\ SelectLatestYear
    /\ LET m == PopulationMetadata(api_data) IN
       IF m.err # "none"
       THEN /\ Fail(m.err)
            /\ UNCHANGED <<fs, written>>
       ELSE /\ fs' = WriteJson(fs, POP_FULL, m.metadata)
            /\ written' = Append(written, POP_FULL)
            /\ pc' = "full_density"
            /\ UNCHANGED err
    /\ UNCHANGED <<env, prog, caught, joinLocals, calcVars, ran>>

\* main, step 5b: create_density_metadata(api_data), then main returns
CreateDensityMetadata ==
    /\ prog = "join" /\ pc = "full_density" /\ err = "none"
    /\ SelectLatestYear
    /\ LET m == DensityMetadata(api_data) IN
       IF m.err # "none"
       THEN /\ Fail(m.err)
            /\ UNCHANGED <<fs, written, ran>>
       ELSE /\ fs' = WriteJson(fs, DENS_FULL, m.metadata)
            /\ written' = Append(written, DENS_FULL)
            /\ pc' = "done"
            /\ ran' = ran \cup {"join"}
            /\ UNCHANGED err
    /\ UNCHANGED <<env, prog, caught, joinLocals, calcVars>>

NextJoin ==
    \/ LoadApiData
    \/ FallbackLoad
    \/ LoadBounds
    \/ AnalyzeDataCoverage
    \/ CreateMatchedMetadata
    \/ CreateMetadataFromLatestYear
    \/ CreateDensityMetadata

\* ----------------------------------------------- calculate_melbourne_center.py
\* min() and max() of a non-empty list
Min(S) == CHOOSE x \in S : \A y \in S : x <= y
Max(S) == CHOOSE x \in S : \A y \in S : y <= x

\* all_lngs.extend([min_lng, max_lng]); all_lats.extend([min_lat, max_lat])
AllLngs(regions) == UNION {{regions[n][1], regions[n][3]} : n \in DOMAIN regions}
AllLats(regions) == UNION {{regions[n][2], regions[n][4]} : n \in DOMAIN regions}

\* OverallMaxLng taken over the first region's corners only
OverallMaxLngFirstOnly(regions) ==
    LET n == CHOOSE m \in DOMAIN regions : TRUE IN Max({regions[n][1], regions[n][3]})

\* overall_min_lng = min(all_lngs), ..., overall_max_lat = max(all_lats)
OverallMinLng(regions) == Min(AllLngs(regions))
OverallMinLat(regions) == Min(AllLats(regions))
OverallMaxLng(regions) == Max(AllLngs(regions))
OverallMaxLat(regions) == Max(AllLats(regions))

\* Overall with min(..., default=0) and max(..., default=0): no exception
OverallDefaultZero(regions) ==
    IF DOMAIN regions = {}
    THEN [err |-> "none", box |-> <<0, 0, 0, 0>>]
    ELSE [err |-> "none",
          box |-> <<Min(AllLngs(regions)), Min(AllLats(regions)),
                    Max(AllLngs(regions)), Max(AllLats(regions))>>]

\* The union box, or the ValueError min() raises on the empty list that an
\* empty mapping leaves in all_lngs.
Overall(regions) ==
    IF DOMAIN regions = {}
    THEN [err |-> "ValueError", box |-> <<>>]
    ELSE [err |-> "none",
          box |-> <<OverallMinLng(regions), OverallMinLat(regions),
                    OverallMaxLng(regions), OverallMaxLat(regions)>>]

\* center = (overall_min + overall_max) / 2, in twentieths of a degree
Center(lo, hi) == lo + hi

\* Zoom with inclusive thresholds (>= for >)
ZoomInclusive(max_span) ==
    IF max_span >= 100 THEN 8
    ELSE IF max_span >= 50 THEN 9
    ELSE IF max_span >= 20 THEN 10
    ELSE IF max_span >= 10 THEN 11
    ELSE IF max_span >= 5 THEN 12
    ELSE IF max_span >= 2 THEN 13
    ELSE IF max_span >= 1 THEN 14
    ELSE 15

\* the if/elif chain on max_span (tenths of a degree)
Zoom(max_span) ==
    IF max_span > 100 THEN 8
    ELSE IF max_span > 50 THEN 9
    ELSE IF max_span > 20 THEN 10
    ELSE IF max_span > 10 THEN 11
    ELSE IF max_span > 5 THEN 12
    ELSE IF max_span > 2 THEN 13
    ELSE IF max_span > 1 THEN 14
    ELSE 15

\* max_span = max(lng_span, lat_span)
MaxSpan(b) == Max({b[3] - b[1], b[4] - b[2]})

\* return center_lat, center_lng, zoom
CenterAndZoom(b) == <<Center(b[2], b[4]), Center(b[1], b[3]), Zoom(MaxSpan(b))>>

\* CalcBoundsFile naming the file create_bounds_info writes
CalcBoundsFileOfExtractor == BOUNDS_INFO

\* the file show_region_examples opens, and the one calculate_center_and_bounds opens
RegionExamplesFile == ZIP_META
CalcBoundsFile == ZIP_BOUND

\* main, step 1: show_region_examples()
ShowRegionExamples ==
    /\ prog = "calc" /\ pc = "show_regions" /\ err = "none"
    /\ IF ReadError(fs, RegionExamplesFile) # "none"
       THEN Fail(ReadError(fs, RegionExamplesFile))
       ELSE /\ pc' = "center"
            /\ UNCHANGED err
    /\ UNCHANGED <<fs, env, prog, caught, written, joinLocals, latest_year,
                   calcVars, ran>>

\* main, step 2: calculate_center_and_bounds(), then main prints and returns
CalculateCenterAndBounds ==
    /\ prog = "calc" /\ pc = "center" /\ err = "none"
    /\ IF ReadError(fs, CalcBoundsFile) # "none"
       THEN /\ Fail(ReadError(fs, CalcBoundsFile))
            /\ UNCHANGED <<bounds_data, box, result, ran>>
       ELSE LET regions == fs[CalcBoundsFile].val IN
            /\ bounds_data' = regions
            /\ IF Overall(regions).err # "none"
               THEN /\ Fail(Overall(regions).err)
                    /\ UNCHANGED <<box, result, ran>>
               ELSE /\ box' = Overall(regions).box
                    /\ result' = CenterAndZoom(Overall(regions).box)
                    /\ pc' = "done"
                    /\ ran' = ran \cup {"calc"}
                    /\ UNCHANGED err
    /\ UNCHANGED <<fs, env, prog, caught, written, api_data, common_names,
                   api_only, shapefile_only, latest_year>>

NextCalc ==
    \/ ShowRegionExamples
    \/ CalculateCenterAndBounds

\* ------------------------------------------------- process_melbourne_data.py
\* [min_lng, min_lat, max_lng, max_lat, center_lng, center_lat] of a geometry
\* whose bounds are b; the centroid of the model's geometries is the corner
\* (the scripts never read it).
BoundsEntry(b) == <<b[1], b[2], b[3], b[4], b[1], b[2]>>

\* bounds_info["data"][sa2_name] = [...] for every row
BoundsInfo(gdf) == [n \in DOMAIN gdf |-> BoundsEntry(gdf[n])]

\* the file create_bounds_info writes
BoundsInfoFile == BOUNDS_INFO

\* main, steps 1 to 4: load, explore, filter, create_geojson
CreateGeojson ==
    /\ prog = "extract" /\ pc = "geojson" /\ err = "none"
    /\ fs' = WriteJson(fs, GEOJSON, shapefile)
    /\ written' = Append(written, GEOJSON)
    /\ pc' = "bounds_info"
    /\ UNCHANGED <<env, prog, err, caught, joinLocals, latest_year, calcVars, ran>>

\* main, step 5: create_bounds_info(melbourne_gdf)
CreateBoundsInfo ==
    /\ prog = "extract" /\ pc = "bounds_info" /\ err = "none"
    /\ fs' = WriteJson(fs, BoundsInfoFile, BoundsInfo(shapefile))
    /\ written' = Append(written, BoundsInfoFile)
    /\ pc' = "fetch"
    /\ UNCHANGED <<env, prog, err, caught, joinLocals, latest_year, calcVars, ran>>

\* main, step 6: fetch_melbourne_population_data(); every exception is
\* swallowed and a 200 body is saved unchecked; then main returns
FetchMelbournePopulationData ==
    /\ prog = "extract" /\ pc = "fetch" /\ err = "none"
    /\ \E w \in CacheWrites :
        IF remote.kind \in RemoteFailures \/ w = "open_fails"
        THEN UNCHANGED <<fs, written>>
        ELSE IF w = "dump_fails"
        THEN /\ fs' = [fs EXCEPT ![LOCAL_JSON] = Corrupt]
             /\ UNCHANGED written
        ELSE /\ fs' = WriteJson(fs, LOCAL_JSON, remote.val)
             /\ written' = Append(written, LOCAL_JSON)
    /\ pc' = "done"
    /\ ran' = ran \cup {"extract"}
    /\ UNCHANGED <<env, prog, err, caught, joinLocals, latest_year, calcVars>>

NextExtract ==
    \/ CreateGeojson
    \/ CreateBoundsInfo
    \/ FetchMelbournePopulationData

\* ------------------------------------------------------------ initial states
\* Lists of at most n records drawn from recs
ListsUpTo(recs, n) == UNION {[1..k -> recs] : k \in 0..n}

NoField == <<>>
NameFields(names) == {"sa2_name" :> n : n \in names}
AreaFields(areas) == {"area_km2" :> a : a \in areas}
PopFields(col, pops) == {col :> p : p \in pops}

\* API names A and B, boundary names A and a: A can match, B is only in the
\* API, and a (A in another case) only in the shapefile.
ApiRegionNames == {"A", "B"}
BoundaryRegionNames == {"A", "a"}
UnitBox == <<0, 0, 1, 1>>

\* Joiner inputs: records with or without area_km2 and y2021, one record
\* without sa2_name; the same name may occur twice with different values.
JoinRecs ==
    {n @@ a @@ ("y2020" :> 1) @@ y :
        n \in NameFields(ApiRegionNames),
        a \in {NoField} \cup AreaFields({0, 2}),
        y \in {NoField} \cup PopFields("y2021", {3, 5})}
    \cup {("area_km2" :> 2) @@ ("y2020" :> 1) @@ ("y2021" :> 3)}

\* Year-column inputs: every combination of the 'y' fields, per record.
YearRecs ==
    {n @@ ("area_km2" :> 2) @@ y0 @@ y1 @@ yx :
        n \in NameFields(ApiRegionNames),
        y0 \in {NoField} \cup PopFields("y2020", {1}),
        y1 \in {NoField} \cup PopFields("y2021", {3}),
        yx \in {NoField} \cup PopFields("yield", {7})}

\* Density inputs: one region, every area (none, negative, zero, positive)
\* and population within the bounds.
DensityRecs ==
    {("sa2_name" :> "A") @@ a @@ y :
        a \in {NoField} \cup AreaFields(-1..MaxArea),
        y \in PopFields("y2021", 0..MaxPop)}

\* What is in the cache file before the run.
OldRecord == [sa2_name |-> "A", area_km2 |-> 2, y2020 |-> 1, y2021 |-> 4]
OldCaches == {Absent, Corrupt, Json(<<>>), Json(<<OldRecord>>)}

RemoteAnswers(lists) == {[kind |-> k] : k \in RemoteFailures} \cup {Json(l) : l \in lists}

BoundaryMaps(names) == {[n \in ns |-> BoundsEntry(UnitBox)] : ns \in SUBSET names}

\* Pipeline inputs: complete records of A and B, or a failing API.
PipelineRecs ==
    {[sa2_name |-> "A", area_km2 |-> 2, y2020 |-> 1, y2021 |-> 3],
     [sa2_name |-> "B", area_km2 |-> 0, y2020 |-> 1, y2021 |-> 5]}
PipelineAnswers == RemoteAnswers([1..2 -> PipelineRecs])

\* The shapefile's Greater Melbourne rows (name -> bounds) of the pipeline.
ShapeBox(n) == IF n = "A" THEN <<0, 0, 3, 2>> ELSE <<1, 1, 6, 2>>
ShapeMaps == {[n \in ns |-> ShapeBox(n)] : ns \in SUBSET BoundaryRegionNames}

\* ------------------------------------------------------ running the scripts
\* A script is invoked when none is running; each run starts from scratch,
\* and the API answers each run's GET as it will.
Start(p, first) ==
    /\ pc \in {"idle", "done"} \/ err # "none"
    /\ prog' = p
    /\ pc' = first
    /\ err' = "none"
    /\ caught' = "none"
    /\ written' = <<>>
    /\ api_data' = <<>>
    /\ bounds_data' = EmptyDict
    /\ common_names' = {}
    /\ api_only' = {}
    /\ shapefile_only' = {}
    /\ latest_year' = "none"
    /\ box' = <<>>
    /\ result' = <<>>
    /\ remote' \in PipelineAnswers
    /\ UNCHANGED <<fs, shapefile, ran>>

StartExtractor == Start("extract", "geojson")
StartJoiner == Start("join", "load_api")
StartCalculator == Start("calc", "show_regions")

NextPipeline ==
    \/ StartExtractor
    \/ StartJoiner
    \/ StartCalculator
    \/ NextExtract
    \/ NextJoin
    \/ NextCalc

InitFs(cache, bounds, zipmeta, zipbound) ==
    [f \in Files |-> IF f = LOCAL_JSON THEN cache
                     ELSE IF f = BOUNDS_INFO THEN bounds
                     ELSE IF f = ZIP_META THEN zipmeta
                     ELSE IF f = ZIP_BOUND THEN zipbound
                     ELSE Absent]

InitRun(p, first) ==
    /\ prog = p
    /\ pc = first
    /\ err = "none"
    /\ caught = "none"
    /\ written = <<>>
    /\ api_data = <<>>
    /\ bounds_data = EmptyDict
    /\ common_names = {}
    /\ api_only = {}
    /\ shapefile_only = {}
    /\ latest_year = "none"
    /\ box = <<>>
    /\ result = <<>>
    /\ ran = {}

\* A Joiner run over every record list, cache state and boundary file.
InitJoin ==
    /\ InitRun("join", "load_api")
    /\ remote \in RemoteAnswers(ListsUpTo(JoinRecs, MaxRecs))
    /\ shapefile = EmptyDict
    /\ \E c \in OldCaches, b \in {Absent} \cup {Json(m) : m \in BoundaryMaps(BoundaryRegionNames)} :
          fs = InitFs(c, b, Absent, Absent)

\* A Joiner run over every shape of the year columns.
InitYear ==
    /\ InitRun("join", "load_api")
    /\ remote \in RemoteAnswers(ListsUpTo(YearRecs, MaxRecs))
    /\ shapefile = EmptyDict
    /\ \E c \in {Absent, Json(<<>>)},
          b \in {Json(m) : m \in BoundaryMaps(BoundaryRegionNames)} :
          fs = InitFs(c, b, Absent, Absent)

\* A Joiner run over every area and population of one record.
InitDensity ==
    /\ InitRun("join", "load_api")
    /\ remote \in RemoteAnswers({<<r>> : r \in DensityRecs})
    /\ shapefile = EmptyDict
    /\ \E b \in {Json(m) : m \in BoundaryMaps(BoundaryRegionNames)} :
          fs = InitFs(Absent, b, Absent, Absent)

SpecJoin == InitJoin /\ [][NextJoin]_vars
SpecYear == InitYear /\ [][NextJoin]_vars
SpecDensity == InitDensity /\ [][NextJoin]_vars

\* Calculator inputs of the union-box checks: up to two regions whose corners
\* lie on a small grid, min and max in either order.
GridBoxes == {<<a, b, c, d>> : a \in 0..MaxGrid, b \in 0..MaxGrid,
                               c \in 0..MaxGrid, d \in 0..MaxGrid}
GridMaps == UNION {[ns -> {BoundsEntry(b) : b \in GridBoxes}] : ns \in SUBSET BoundaryRegionNames}

\* Calculator inputs of the zoom checks: one region from the origin to every
\* corner up to MaxCoord.
ZoomMaps == {[n \in {"A"} |-> BoundsEntry(<<0, 0, x, y>>)] : x \in 0..MaxCoord, y \in 0..MaxCoord}

SomeMetadata == [n \in {"A"} |-> 3]

InitCalc ==
    /\ InitRun("calc", "show_regions")
    /\ remote = [kind |-> "ConnectionError"]
    /\ shapefile = EmptyDict
    /\ \E zm \in {Absent, Json(SomeMetadata)},
          zb \in {Absent, Corrupt} \cup {Json(m) : m \in GridMaps} :
          fs = InitFs(Absent, Absent, zm, zb)

InitZoom ==
    /\ InitRun("calc", "show_regions")
    /\ remote = [kind |-> "ConnectionError"]
    /\ shapefile = EmptyDict
    /\ \E zb \in {Json(m) : m \in ZoomMaps} :
          fs = InitFs(Absent, Absent, Json(SomeMetadata), zb)

\* The pipeline: nothing has been generated yet; zipcode_bound_info.json, which
\* no script writes, is there or not.
InitPipeline ==
    /\ InitRun("idle", "idle")
    /\ remote \in PipelineAnswers
    /\ shapefile \in ShapeMaps
    /\ \E zb \in {Absent} \cup {Json(BoundsInfo(m)) : m \in ShapeMaps} :
          fs = InitFs(Absent, Absent, Absent, zb)

SpecCalc == InitCalc /\ [][NextCalc]_vars
SpecZoom == InitZoom /\ [][NextCalc]_vars
SpecPipeline == InitPipeline /\ [][NextPipeline]_vars
Spec == SpecPipeline

\* ====================================================== properties: calculator
CalcReturned == prog = "calc" /\ pc = "done" /\ err = "none"
CalcRegions == fs[ZIP_BOUND].val
WellFormed(regions) ==
    \A n \in DOMAIN regions : regions[n][1] <= regions[n][3] /\ regions[n][2] <= regions[n][4]

\* the zoom table of the specification, in tenths of a degree
ZoomTable(span) ==
    CASE span > 100 -> 8
      [] span <= 100 /\ span > 50 -> 9
      [] span <= 50 /\ span > 20 -> 10
      [] span <= 20 /\ span > 10 -> 11
      [] span <= 10 /\ span > 5 -> 12
      [] span <= 5 /\ span > 2 -> 13
      [] span <= 2 /\ span > 1 -> 14
      [] span <= 1 -> 15

\* C1: the zoom calculate_center_and_bounds returns is the table's value for
\* max_span = max(lng_span, lat_span) of the union box and depends on nothing
\* else; a span equal to a threshold takes the next row (10 degrees gives 9,
\* 0.1 degree gives 15); and a larger span never gives a larger zoom.
C1_ZoomTable ==
    CalcReturned =>
        LET lng_span == box[3] - box[1]
            lat_span == box[4] - box[2]
            span == IF lng_span >= lat_span THEN lng_span ELSE lat_span
        IN  /\ result[3] = ZoomTable(span)
            /\ span = 100 => result[3] = 9
            /\ span = 1 => result[3] = 15
            /\ \A s1 \in 0..span : Zoom(span) <= Zoom(s1)

\* a run whose latitude span decides, exactly on the 10 degree threshold
C1_Witness ==
    /\ CalcReturned
    /\ box[4] - box[2] = 100
    /\ box[3] - box[1] = 7
    /\ result[3] = 9

C9_UnionContains ==
    (CalcReturned /\ WellFormed(CalcRegions)) =>
        /\ \A n \in DOMAIN CalcRegions :
              /\ box[1] <= CalcRegions[n][1] /\ CalcRegions[n][3] <= box[3]
              /\ box[2] <= CalcRegions[n][2] /\ CalcRegions[n][4] <= box[4]
        /\ result[2] = box[1] + box[3]
        /\ result[1] = box[2] + box[4]
        /\ 2 * box[1] <= result[2] /\ result[2] <= 2 * box[3]
        /\ 2 * box[2] <= result[1] /\ result[1] <= 2 * box[4]

\* two well-formed regions, neither containing the other
C9_Witness ==
    /\ CalcReturned
    /\ WellFormed(CalcRegions)
    /\ DOMAIN CalcRegions = {"A", "a"}
    /\ CalcRegions["A"][3] < CalcRegions["a"][3]
    /\ CalcRegions["a"][4] < CalcRegions["A"][4]
    /\ box[3] = CalcRegions["a"][3]

\* ========================================================= properties: joiner
JoinAt(positions) == prog = "join" /\ pc \in positions
\* analyze_data_coverage has returned
Analyzed == JoinAt({"matched", "full_population", "full_density", "done"})
JoinCompleted == JoinAt({"done"}) /\ err = "none"

\* C8: matched, population-only and boundary-only are pairwise disjoint and
\* together are exactly the names of the records and the boundary map, each
\* bucket holding the names its definition says by exact equality; the matched
\* set is the same with the two inputs swapped.
C8_Partition ==
    Analyzed =>
        LET A == {api_data[i].sa2_name : i \in 1..Len(api_data)}
            B == DOMAIN bounds_data
        IN  /\ common_names \cap api_only = {}
            /\ common_names \cap shapefile_only = {}
            /\ api_only \cap shapefile_only = {}
            /\ common_names \cup api_only \cup shapefile_only = A \cup B
            /\ common_names = {n \in A \cup B : n \in A /\ n \in B}
            /\ api_only = {n \in A \cup B : n \in A /\ n \notin B}
            /\ shapefile_only = {n \in A \cup B : n \notin A /\ n \in B}
            /\ CommonNames(B, A) = common_names
            /\ Cardinality(CommonNames(B, A)) = Cardinality(common_names)

\* all three buckets are non-empty, the boundary-only name differing from the
\* matched one by case alone
C8_Witness ==
    /\ Analyzed
    /\ common_names = {"A"}
    /\ api_only = {"B"}
    /\ shapefile_only = {"a"}

\* C2: after a run that completes, each matched output is the full output
\* restricted to the matched set: its keys are exactly the names present in
\* both the records and the boundary map, with the full output's values, also
\* when a name occurs in several records.
C2_MatchedIsRestriction ==
    JoinCompleted =>
        LET matched == {n \in DOMAIN bounds_data :
                           \E i \in 1..Len(api_data) : api_data[i].sa2_name = n}
        IN  /\ DOMAIN fs[ZIP_META].val = matched
            /\ DOMAIN fs[DENS_MATCHED].val = matched
            /\ matched \subseteq DOMAIN fs[POP_FULL].val
            /\ matched \subseteq DOMAIN fs[DENS_FULL].val
            /\ \A n \in matched :
                  /\ fs[ZIP_META].val[n] = fs[POP_FULL].val[n]
                  /\ fs[DENS_MATCHED].val[n] = fs[DENS_FULL].val[n]

\* a completed run whose records name the matched region twice with different
\* populations and areas, and name an unmatched region too
C2_Witness ==
    /\ JoinCompleted
    /\ Len(api_data) = 2
    /\ api_data[1].sa2_name = "A" /\ api_data[2].sa2_name = "A"
    /\ latest_year = "y2021"
    /\ api_data[1].y2021 # api_data[2].y2021
    /\ api_data[1].area_km2 # api_data[2].area_km2
    /\ "A" \in DOMAIN bounds_data
    /\ fs[ZIP_META].val["A"] = api_data[2].y2021

\* C2 with an unmatched name in the full outputs
C2_WitnessUnmatched ==
    /\ JoinCompleted
    /\ DOMAIN fs[ZIP_META].val = {"A"}
    /\ DOMAIN fs[POP_FULL].val = {"A", "B"}

\* C3 as claimed: only a transport failure of the fetch is caught; the
\* structure check's ValueError and a failing cache write end the run and are
\* never turned into a load of the cached data.
C3_CheckAndWriteErrorsAbort ==
    prog = "join" => caught \notin {"ValueError", "OSError"}

\* C3 amended: every exception load_api_data raises (transport failure, a body
\* that is not JSON, the structure check's ValueError, a failing cache write)
\* is caught, once, and converted into one attempt to load the cache file;
\* the run then continues with the cache file's content, or ends with the
\* exception of that load.
C3_EveryLoadErrorFallsBack ==
    (prog = "join" /\ (pc # "load_api" \/ err # "none")) =>
        /\ remote.kind \in RemoteFailures => caught = remote.kind
        /\ (remote.kind = "json" /\ (remote.val = <<>> \/ "sa2_name" \notin DOMAIN remote.val[1]))
              => caught = "ValueError"
        /\ caught \in {"none", "OSError", "ValueError"} \cup RemoteFailures
        /\ caught = "none" => (api_data = remote.val /\ fs[LOCAL_JSON] = Json(remote.val))
        /\ pc = "load_api" => err = "none"
        /\ (caught # "none" /\ pc = "fallback") =>
              /\ fs[LOCAL_JSON].kind = "absent" => err \in {"none", "FileNotFoundError"}
              /\ fs[LOCAL_JSON].kind = "corrupt" => err \in {"none", "JSONDecodeError"}
              /\ fs[LOCAL_JSON].kind = "json" => err = "none"
        /\ (caught # "none" /\ pc # "fallback") =>
              /\ fs[LOCAL_JSON].kind = "json"
              /\ api_data = fs[LOCAL_JSON].val

\* a run that completes on the cached data after the structure check failed
C3_Witness ==
    /\ JoinCompleted
    /\ caught = "ValueError"
    /\ api_data = <<OldRecord>>
    /\ remote.kind = "json"

\* a fallback that fails ends the run
C3_WitnessFallbackFails ==
    /\ prog = "join" /\ pc = "fallback" /\ err = "FileNotFoundError"
    /\ caught = "OSError"

\* the outputs of a Joiner run, in the order main produces them
OutputOrder == <<ZIP_META, DENS_MATCHED, POP_FULL, DENS_FULL>>
IsOutput(f) == f \in {ZIP_META, DENS_MATCHED, POP_FULL, DENS_FULL}
OutputsWritten == SelectSeq(written, IsOutput)
InputsLoaded == JoinAt({"analyze", "matched", "full_population", "full_density", "done"})
RunEnded == pc = "done" \/ err # "none"

\* C7 as claimed: once the inputs are loaded, an output that can be produced
\* from them is written whether or not producing another one failed.
C7_Independent ==
    (InputsLoaded /\ RunEnded /\ PopulationMetadata(api_data).err = "none") =>
        \E i \in 1..Len(written) : written[i] = POP_FULL

\* C7 amended: main produces the outputs in one fixed order and stops at the
\* first failure, so the outputs written are an initial part of zipcode_metadata,
\* melbourne_density_matched, melbourne_population_metadata,
\* melbourne_density_metadata: none after a failed step, and the two matched
\* files together or not at all.
C7_WrittenInOrder ==
    InputsLoaded =>
        /\ OutputsWritten = SubSeq(OutputOrder, 1, Len(OutputsWritten))
        /\ Len(OutputsWritten) =
              CASE pc \in {"analyze", "matched"} -> 0
                [] pc = "full_population" -> 2
                [] pc = "full_density" -> 3
                [] pc = "done" -> 4
        /\ \A f \in {ZIP_META, DENS_MATCHED, POP_FULL, DENS_FULL} :
              fs[f].kind = "json" <=> \E i \in 1..Len(written) : written[i] = f

\* the matched step fails on a matched record without area_km2, and the full
\* population output, which needs no area, is not written
C7_Witness ==
    /\ JoinAt({"matched"}) /\ err = "KeyError"
    /\ PopulationMetadata(api_data).err = "none"
    /\ OutputsWritten = <<>>
    /\ fs[POP_FULL].kind = "absent"

\* the year labels found in any record of the population data
LabelsPresent == {c \in YearLabels : \E i \in 1..Len(api_data) : c \in DOMAIN api_data[i]}
\* the keys of the first record that start with 'y'
FirstRecordYKeys == {c \in DOMAIN api_data[1] : c \in {"y2020", "y2021", "yield"}}
PastMatched == JoinAt({"full_population", "full_density", "done"})

\* C4 as claimed: the selected year is the greatest year label found in the
\* records, those of every record and not only of the first.
C4_MaxOverAllRecords ==
    (prog = "join" /\ latest_year # "none") =>
        \A c \in LabelsPresent : FieldRank(c) <= FieldRank(latest_year)

\* C4 amended: the selected year is the greatest, in string order, of the keys
\* of the FIRST record that start with 'y', year labels or not, whatever the
\* other records hold; when the first record has no such key the step fails
\* with the ValueError of max() on an empty list and nothing is selected.
C4_MaxOfFirstRecordYKeys ==
    /\ (prog = "join" /\ latest_year # "none") =>
          /\ latest_year \in FirstRecordYKeys
          /\ \A c \in FirstRecordYKeys : FieldRank(c) <= FieldRank(latest_year)
    /\ PastMatched => (FirstRecordYKeys # {} /\ latest_year # "none")
    /\ (JoinAt({"matched"}) /\ err # "none" /\ Len(api_data) > 0 /\ FirstRecordYKeys = {}) =>
          (err = "ValueError" /\ latest_year = "none")
    /\ (JoinAt({"matched"}) /\ err # "none" /\ Len(api_data) = 0) =>
          (err = "IndexError" /\ latest_year = "none")

\* the first record holds only y2020, the second y2021 as well: y2020 is selected
C4_Witness ==
    /\ PastMatched
    /\ Len(api_data) = 2
    /\ FirstRecordYKeys = {"y2020"}
    /\ "y2021" \in DOMAIN api_data[2]
    /\ latest_year = "y2020"

\* a key that starts with 'y' and is no year label is selected
C4_WitnessNotAYear ==
    /\ PastMatched
    /\ FirstRecordYKeys = {"y2020", "y2021", "yield"}
    /\ latest_year = "yield"

\* an empty record list, loaded from the cache file: IndexError
C4_WitnessEmptyList ==
    /\ JoinAt({"matched"}) /\ err = "IndexError"
    /\ api_data = <<>>

\* no 'y' key in the first record: ValueError
C4_WitnessNoYear ==
    /\ JoinAt({"matched"}) /\ err = "ValueError"
    /\ FirstRecordYKeys = {}

HasArea(i) == "area_km2" \in DOMAIN api_data[i]
\* d is population / area rounded to the nearest hundredth, ties to even
IsRounded(d, population, area) ==
    LET diff == d * area - 100 * population
        dist == IF diff < 0 THEN 0 - diff ELSE diff
    IN  /\ 2 * dist <= area
        /\ 2 * dist = area => d % 2 = 0

\* C5 as claimed: a record without area_km2 gets density 0, and no area makes
\* the density steps raise.
C5_MissingAreaIsZero ==
    /\ JoinAt({"matched", "full_density"}) => err = "none"
    /\ JoinCompleted =>
          \A i \in 1..Len(api_data) :
              ~HasArea(i) => fs[DENS_FULL].val[api_data[i].sa2_name] = 0

\* C5 amended: the density of a record WITH area_km2 is population / area_km2
\* rounded to 2 decimals when the area is positive and 0 when it is zero or
\* negative, with no division by zero; a record WITHOUT area_km2 makes the
\* step that computes its density raise KeyError, which ends the run.
C5_DensityOrKeyError ==
    /\ (JoinAt({"matched", "full_density"}) /\ err # "none") =>
          /\ err = "KeyError"
          /\ \E i \in 1..Len(api_data) :
                /\ ~HasArea(i)
                /\ pc = "matched" => api_data[i].sa2_name \in common_names
    /\ PastMatched =>
          \A i \in 1..Len(api_data) :
              api_data[i].sa2_name \in common_names =>
                  /\ HasArea(i)
                  /\ LET d == fs[DENS_MATCHED].val[api_data[i].sa2_name]
                          a == api_data[i].area_km2
                     IN  /\ a <= 0 => d = 0
                         /\ a > 0 => IsRounded(d, api_data[i][latest_year], a)
    /\ JoinCompleted =>
          \A i \in 1..Len(api_data) :
              /\ HasArea(i)
              /\ LET d == fs[DENS_FULL].val[api_data[i].sa2_name]
                      a == api_data[i].area_km2
                 IN  /\ a <= 0 => d = 0
                     /\ a > 0 => IsRounded(d, api_data[i][latest_year], a)

\* 7 people on 8 km2: 0.875, a tie, rounds to 0.88
C5_Witness ==
    /\ JoinCompleted
    /\ api_data[1].area_km2 = 8 /\ api_data[1].y2021 = 7
    /\ fs[DENS_FULL].val["A"] = 88
    /\ fs[DENS_MATCHED].val = [n \in {"A"} |-> 88]

\* area 0: density 0
C5_WitnessZeroArea ==
    /\ JoinCompleted
    /\ api_data[1].area_km2 = 0 /\ api_data[1].y2021 = 7
    /\ fs[DENS_FULL].val["A"] = 0

\* no area_km2: KeyError in the full density step, after the matched step
\* skipped the unmatched record
C5_WitnessMissingArea ==
    /\ JoinAt({"full_density"}) /\ err = "KeyError"
    /\ ~HasArea(1)
    /\ fs[DENS_FULL].kind = "absent"

\* ======================================================= properties: pipeline
\* C10 as claimed: the calculator needs the Boundary Extractor's output only, so
\* once the Extractor has run (on a shapefile with regions) a calculator run
\* succeeds, whether or not the Joiner has run.
C10_NeedsOnlyExtractor ==
    ("extract" \in ran /\ DOMAIN shapefile # {} /\ prog = "calc" /\ RunEnded)
        => err = "none"

\* C10 amended: calculate_melbourne_center.main reads zipcode_metadata.json,
\* which only the Joiner's create_matched_metadata writes, and then
\* zipcode_bound_info.json, which no script writes (create_bounds_info writes
\* melbourne_sa2_bounds_info.json, the file the Joiner reads); it returns only
\* if both files are there, and computes from zipcode_bound_info.json.
C10_ReadsZipcodeFiles ==
    [][/\ fs'[ZIP_BOUND] = fs[ZIP_BOUND]
       /\ fs'[ZIP_META] # fs[ZIP_META] => (prog = "join" /\ pc = "matched")
       /\ fs'[BOUNDS_INFO] # fs[BOUNDS_INFO] => (prog = "extract" /\ pc = "bounds_info")
       /\ (prog = "join" /\ pc = "load_bounds" /\ pc' = "analyze") =>
              bounds_data' = fs[BOUNDS_INFO].val
       /\ (prog = "calc" /\ pc = "center" /\ pc' = "done") =>
              /\ fs[ZIP_META].kind = "json"
              /\ fs[ZIP_BOUND].kind = "json"
              /\ bounds_data' = fs[ZIP_BOUND].val
              /\ box' = <<OverallMinLng(fs[ZIP_BOUND].val), OverallMinLat(fs[ZIP_BOUND].val),
                          OverallMaxLng(fs[ZIP_BOUND].val), OverallMaxLat(fs[ZIP_BOUND].val)>>]_vars

\* the calculator returns after the Extractor and the Joiner have written
\* their files, having read a mapping that is not the Extractor's
C10_Witness ==
    /\ CalcReturned
    /\ "extract" \in ran
    /\ fs[BOUNDS_INFO].kind = "json"
    /\ fs[ZIP_META].kind = "json"
    /\ bounds_data = fs[ZIP_BOUND].val
    /\ bounds_data # fs[BOUNDS_INFO].val

\* the Extractor has run and the calculator stops on the missing
\* zipcode_metadata.json
C10_WitnessFails ==
    /\ "extract" \in ran /\ "join" \notin ran
    /\ prog = "calc" /\ pc = "show_regions" /\ err = "FileNotFoundError"

====
